---- MODULE Spec2Model ----
(***************************************************************************)
(* A model of src/livescore_agent.py: one run of main(), that is           *)
(* DailyFootballList.generate_daily_football_list() with its five phases   *)
(* (extraction from three websites, schedule generation, processing,       *)
(* multi-format export, platform summary) under the handler of main().     *)
(*                                                                         *)
(* Texts are TLA+ strings; a character is a string of length one, read     *)
(* with SubSeq.  The regular expressions of the source are written out as  *)
(* the leftmost, backtracking matches Python's re module computes.         *)
(***************************************************************************)
EXTENDS Integers, Sequences, FiniteSets, TLC

----------------------------------------------------------------------------
(* Characters and the str methods the source uses.                         *)

UpperAlpha == "ABCDEFGHIJKLMNOPQRSTUVWXYZ"
LowerAlpha == "abcdefghijklmnopqrstuvwxyz"
DigitChars == "0123456789"

At(s, i) == IF 1 <= i /\ i <= Len(s) THEN SubSeq(s, i, i) ELSE ""

\* s[i-1:j], the end clipped to the length of s as Python clips a slice
Slice(s, i, j) == SubSeq(s, i, IF j > Len(s) THEN Len(s) ELSE j)

CharSet(s) == {SubSeq(s, i, i) : i \in 1..Len(s)}

Uppers == CharSet(UpperAlpha)
Lowers == CharSet(LowerAlpha)
Letters == Uppers \cup Lowers
Digits == CharSet(DigitChars)
Whitespace == {" ", "\t", "\n", "\r"}
\* \w of the re module, on ASCII text
WordChars == Letters \cup Digits \cup {"_"}

LowerOf == [c \in Uppers |->
              At(LowerAlpha, CHOOSE i \in 1..Len(UpperAlpha) : At(UpperAlpha, i) = c)]
UpperOf == [c \in Lowers |->
              At(UpperAlpha, CHOOSE i \in 1..Len(LowerAlpha) : At(LowerAlpha, i) = c)]

LowerChar(c) == IF c \in Uppers THEN LowerOf[c] ELSE c
UpperChar(c) == IF c \in Lowers THEN UpperOf[c] ELSE c

RECURSIVE lower(_)
lower(s) == IF s = "" THEN "" ELSE LowerChar(Head(s)) \o lower(Tail(s))

RECURSIVE upper(_)
upper(s) == IF s = "" THEN "" ELSE UpperChar(Head(s)) \o upper(Tail(s))

\* sub in s
Contains(s, sub) ==
  \E i \in 1..(Len(s) - Len(sub) + 1) : SubSeq(s, i, i + Len(sub) - 1) = sub

RECURSIVE lstrip(_)
lstrip(s) ==
  IF s # "" /\ Head(s) \in Whitespace THEN lstrip(Tail(s)) ELSE s

RECURSIVE rstrip(_)
rstrip(s) ==
  IF s # "" /\ At(s, Len(s)) \in Whitespace
  THEN rstrip(SubSeq(s, 1, Len(s) - 1))
  ELSE s

strip(s) == rstrip(lstrip(s))

\* s[:n]
Prefix(s, n) == IF Len(s) <= n THEN s ELSE SubSeq(s, 1, n)

\* the number of consecutive characters of s, from position p on, that are in S
RECURSIVE Run(_, _, _)
Run(s, p, S) == IF At(s, p) \in S THEN 1 + Run(s, p + 1, S) ELSE 0

SetMin(S) == CHOOSE x \in S : \A y \in S : x <= y
SetMax(S) == CHOOSE x \in S : \A y \in S : x >= y

----------------------------------------------------------------------------
(* The time pattern \d{1,2}:\d{2}.                                         *)

\* the length of the match of \d{1,2}:\d{2} that starts at i, 0 when none
TimeAt(s, i) ==
  IF /\ At(s, i) \in Digits /\ At(s, i + 1) \in Digits /\ At(s, i + 2) = ":"
     /\ At(s, i + 3) \in Digits /\ At(s, i + 4) \in Digits
  THEN 5
  ELSE IF /\ At(s, i) \in Digits /\ At(s, i + 1) = ":"
          /\ At(s, i + 2) \in Digits /\ At(s, i + 3) \in Digits
       THEN 4
       ELSE 0

RECURSIVE TimeSearch(_, _)
TimeSearch(s, i) ==
  IF i > Len(s) THEN ""
  ELSE LET n == TimeAt(s, i)
       IN  IF n > 0 THEN SubSeq(s, i, i + n - 1) ELSE TimeSearch(s, i + 1)

\* re.search(r'(\d{1,2}:\d{2})', text): the matched text, "" when none
time_match(s) == TimeSearch(s, 1)

\* re.sub(r'\d{1,2}:\d{2}', '', text), scanning from position i
RECURSIVE RemoveTimes(_, _)
RemoveTimes(s, i) ==
  IF i > Len(s) THEN ""
  ELSE LET n == TimeAt(s, i)
       IN  IF n > 0 THEN RemoveTimes(s, i + n)
           ELSE At(s, i) \o RemoveTimes(s, i + 1)

\* \b between positions i-1 and i of s
WordBoundary(s, i) == (At(s, i - 1) \in WordChars) # (At(s, i) \in WordChars)

\* the length of the match of \b(vs|v|against)\b, ignoring case, at i
VsAt(s, i) ==
  IF lower(At(s, i)) \notin {"v", "a"} \/ ~WordBoundary(s, i) THEN 0
  ELSE IF lower(Slice(s, i, i + 1)) = "vs" /\ WordBoundary(s, i + 2)
       THEN 2
       ELSE IF lower(At(s, i)) = "v" /\ WordBoundary(s, i + 1)
            THEN 1
            ELSE IF lower(Slice(s, i, i + 6)) = "against"
                    /\ WordBoundary(s, i + 7)
                 THEN 7
                 ELSE 0

\* re.sub(r'\b(vs|v|against)\b', '|', text, flags=re.I), scanning from i
RECURSIVE ReplaceVs(_, _)
ReplaceVs(s, i) ==
  IF i > Len(s) THEN ""
  ELSE LET n == VsAt(s, i)
       IN  IF n > 0 THEN "|" \o ReplaceVs(s, i + n)
           ELSE At(s, i) \o ReplaceVs(s, i + 1)

----------------------------------------------------------------------------
(* extract_team_names: the three patterns over the class                   *)
(* [A-Za-z\s&\.\'-], each found by re.search (the leftmost match, groups   *)
(* as the backtracking matcher fills them).  A match is <<home, away>>,    *)
(* the two groups; no match is <<>>.                                       *)

NameChars == Letters \cup Whitespace \cup {"&", ".", "'", "-"}

\* the second group (NameChars+) behind a greedy \s*, or \s+ when
\* atLeastOne, that starts at p: <<start, length>>, <<>> when it cannot match
TrailingGroup(t, p, atLeastOne) ==
  LET w == Run(t, p, Whitespace)
      least == IF atLeastOne THEN 1 ELSE 0
  IN  IF w >= least /\ At(t, p + w) \in NameChars
      THEN <<p + w, Run(t, p + w, NameChars)>>
      ELSE IF w - 1 >= least
           THEN <<p + w - 1, Run(t, p + w - 1, NameChars)>>
           ELSE <<>>

\* r'([A-Za-z\s&\.\'-]+?)\s*\|\s*([A-Za-z\s&\.\'-]+)' matched at i
Pattern1At(t, i) ==
  LET r == Run(t, i, NameChars)
      p == i + r
      g2 == TrailingGroup(t, p + 1, FALSE)
  IN  IF r >= 1 /\ At(t, p) = "|" /\ g2 # <<>>
      THEN LET j == SetMin({k \in i..(p - 1) :
                              \A q \in (k + 1)..(p - 1) : At(t, q) \in Whitespace})
           IN  <<SubSeq(t, i, j), SubSeq(t, g2[1], g2[1] + g2[2] - 1)>>
      ELSE <<>>

\* \s+-\s+([A-Za-z\s&\.\'-]+) matched at q: the second group, <<>> when none
DashRest(t, q) ==
  LET k == Run(t, q, Whitespace)
  IN  IF k >= 1 /\ At(t, q + k) = "-"
      THEN TrailingGroup(t, q + k + 1, TRUE)
      ELSE <<>>

\* r'([A-Za-z\s&\.\'-]+?)\s+-\s+([A-Za-z\s&\.\'-]+)' matched at i
Pattern2At(t, i) ==
  LET r == Run(t, i, NameChars)
      ends == {j \in i..(i + r - 1) : DashRest(t, j + 1) # <<>>}
  IN  IF ends = {} THEN <<>>
      ELSE LET j == SetMin(ends)
               g2 == DashRest(t, j + 1)
           IN  <<SubSeq(t, i, j), SubSeq(t, g2[1], g2[1] + g2[2] - 1)>>

\* r'([A-Za-z\s&\.\'-]{3,35})\s+([A-Za-z\s&\.\'-]{3,35})' matched at i
Pattern3At(t, i) ==
  LET r == Run(t, i, NameChars)
      top == IF r > 35 THEN 35 ELSE r
      gaps(L) == {m \in 1..Run(t, i + L, Whitespace) :
                    Run(t, i + L + m, NameChars) >= 3}
      lens == {L \in 3..top : gaps(L) # {}}
  IN  IF lens = {} THEN <<>>
      ELSE LET L == SetMax(lens)
               m == SetMax(gaps(L))
               r2 == Run(t, i + L + m, NameChars)
               n2 == IF r2 > 35 THEN 35 ELSE r2
           IN  <<SubSeq(t, i, i + L - 1),
                 SubSeq(t, i + L + m, i + L + m + n2 - 1)>>

PatternAt(n, t, i) ==
  CASE n = 1 -> Pattern1At(t, i)
    [] n = 2 -> Pattern2At(t, i)
    [] n = 3 -> Pattern3At(t, i)

RECURSIVE SearchFrom(_, _, _)
SearchFrom(n, t, i) ==
  IF i > Len(t) THEN <<>>
  ELSE LET m == PatternAt(n, t, i)
       IN  IF m # <<>> THEN m ELSE SearchFrom(n, t, i + 1)

\* re.search(patterns[n], clean_text): the groups of the leftmost match
Search(n, t) == SearchFrom(n, t, 1)

----------------------------------------------------------------------------
(* The competition database of __init__, in the order of the dict.         *)

competitions ==
  << [name |-> "UEFA Champions League", type |-> "international", country |-> "Europe",
      priority |-> 1, color |-> "#0066CC",
      teams |-> <<"Real Madrid", "Manchester City", "Bayern Munich",
                  "PSG", "Arsenal", "Barcelona", "Inter Milan", "Atletico Madrid",
                  "Borussia Dortmund", "AC Milan", "Chelsea", "Liverpool",
                  "Napoli", "Porto", "Benfica", "Ajax">>],
     [name |-> "UEFA Europa League", type |-> "international", country |-> "Europe",
      priority |-> 2, color |-> "#FF6600",
      teams |-> <<"Sevilla", "Juventus", "Roma", "Tottenham",
                  "Villarreal", "Eintracht Frankfurt", "West Ham",
                  "Leicester City", "Real Betis", "Lyon", "Lazio", "Marseille">>],
     [name |-> "UEFA Conference League", type |-> "international", country |-> "Europe",
      priority |-> 3, color |-> "#669900",
      teams |-> <<"Fiorentina", "West Ham", "AZ Alkmaar", "Anderlecht",
                  "PAOK", "Club Brugge", "Basel", "Nice">>],
     [name |-> "Premier League", type |-> "domestic", country |-> "England",
      priority |-> 1, color |-> "#3D195B",
      teams |-> <<"Arsenal", "Manchester City", "Liverpool", "Chelsea",
                  "Manchester United", "Tottenham", "Newcastle United",
                  "Brighton & Hove Albion", "West Ham United", "Aston Villa",
                  "Crystal Palace", "Fulham", "Wolves", "Everton", "Brentford",
                  "Nottingham Forest", "Luton Town", "Burnley", "Sheffield United",
                  "Bournemouth">>],
     [name |-> "FA Cup", type |-> "cup", country |-> "England",
      priority |-> 2, color |-> "#CC0000",
      teams |-> <<>>],
     [name |-> "EFL Cup", type |-> "cup", country |-> "England",
      priority |-> 3, color |-> "#00AA44",
      teams |-> <<>>],
     [name |-> "La Liga", type |-> "domestic", country |-> "Spain",
      priority |-> 1, color |-> "#FF4444",
      teams |-> <<"Real Madrid", "Barcelona", "Atletico Madrid",
                  "Sevilla", "Real Betis", "Real Sociedad", "Villarreal",
                  "Valencia", "Athletic Bilbao", "Getafe", "Osasuna", "Las Palmas",
                  "Rayo Vallecano", "Girona", "Mallorca", "Cadiz", "Celta Vigo",
                  "Alaves", "Granada", "Almeria">>],
     [name |-> "Copa del Rey", type |-> "cup", country |-> "Spain",
      priority |-> 2, color |-> "#FF6600",
      teams |-> <<>>],
     [name |-> "Serie A", type |-> "domestic", country |-> "Italy",
      priority |-> 1, color |-> "#0066AA",
      teams |-> <<"Juventus", "Inter Milan", "AC Milan", "Napoli",
                  "AS Roma", "Lazio", "Atalanta", "Fiorentina", "Bologna",
                  "Torino", "Monza", "Genoa", "Lecce", "Udinese", "Frosinone",
                  "Empoli", "Verona", "Cagliari", "Sassuolo", "Salernitana">>],
     [name |-> "Coppa Italia", type |-> "cup", country |-> "Italy",
      priority |-> 2, color |-> "#009900",
      teams |-> <<>>],
     [name |-> "Bundesliga", type |-> "domestic", country |-> "Germany",
      priority |-> 1, color |-> "#CC0000",
      teams |-> <<"Bayern Munich", "Borussia Dortmund", "RB Leipzig",
                  "Union Berlin", "SC Freiburg", "Bayer Leverkusen",
                  "Eintracht Frankfurt", "VfL Wolfsburg",
                  "Borussia Monchengladbach", "Mainz 05", "FC Koln", "Hoffenheim",
                  "VfB Stuttgart", "FC Augsburg", "Werder Bremen", "VfL Bochum",
                  "Heidenheim", "Darmstadt 98">>],
     [name |-> "DFB-Pokal", type |-> "cup", country |-> "Germany",
      priority |-> 2, color |-> "#000000",
      teams |-> <<>>],
     [name |-> "Ligue 1", type |-> "domestic", country |-> "France",
      priority |-> 1, color |-> "#0066CC",
      teams |-> <<"Paris Saint-Germain", "AS Monaco", "Lille",
                  "Olympique Marseille", "Olympique Lyon", "Nice", "Lens",
                  "Rennes", "Strasbourg", "Nantes", "Montpellier", "Reims",
                  "Toulouse", "Brest", "Le Havre", "Lorient", "Metz",
                  "Clermont Foot", "Burnley">>],
     [name |-> "Coupe de France", type |-> "cup", country |-> "France",
      priority |-> 2, color |-> "#FF0000",
      teams |-> <<>>],
     [name |-> "Eredivisie", type |-> "domestic", country |-> "Netherlands",
      priority |-> 2, color |-> "#FF6600",
      teams |-> <<"Ajax", "PSV Eindhoven", "Feyenoord", "AZ Alkmaar",
                  "FC Twente", "Vitesse", "FC Utrecht", "Go Ahead Eagles",
                  "Sparta Rotterdam", "PEC Zwolle", "NEC Nijmegen", "Heerenveen",
                  "Almere City", "Fortuna Sittard", "RKC Waalwijk", "FC Volendam",
                  "Excelsior", "VVV-Venlo">>],
     [name |-> "Primeira Liga", type |-> "domestic", country |-> "Portugal",
      priority |-> 2, color |-> "#009900",
      teams |-> <<"Benfica", "FC Porto", "Sporting CP", "SC Braga",
                  "Vitoria Guimaraes", "Boavista", "Gil Vicente", "Casa Pia",
                  "Rio Ave", "Moreirense", "Famalicao", "Estrela", "Arouca",
                  "Vizela", "Chaves", "Farense", "Portimonense", "Estoril">>],
     [name |-> "Turkish Super League", type |-> "domestic", country |-> "Turkey",
      priority |-> 2, color |-> "#FF0000",
      teams |-> <<"Galatasaray", "Fenerbahce", "Besiktas",
                  "Trabzonspor", "Basaksehir", "Sivasspor", "Konyaspor",
                  "Antalyaspor", "Kayserispor", "Alanyaspor", "Kasimpasa",
                  "Gaziantep FK", "Adana Demirspor", "Istanbulspor",
                  "Fatih Karagumruk", "Hatayspor", "Pendikspor", "Rizespor">>],
     [name |-> "Belgian Pro League", type |-> "domestic", country |-> "Belgium",
      priority |-> 3, color |-> "#000000",
      teams |-> <<"Club Brugge", "Royal Antwerp",
                  "Union Saint-Gilloise", "Genk", "Anderlecht", "Gent",
                  "Standard Liege", "Cercle Brugge", "Mechelen", "Sint-Truiden",
                  "Westerlo", "Kortrijk", "Charleroi", "Eupen", "OH Leuven",
                  "Royal Excel Mouscron">>],
     [name |-> "Austrian Bundesliga", type |-> "domestic", country |-> "Austria",
      priority |-> 3, color |-> "#CC0000",
      teams |-> <<"Red Bull Salzburg", "SK Sturm Graz", "LASK",
                  "Austria Vienna", "Rapid Vienna", "Wolfsberger AC",
                  "TSV Hartberg", "FC Blau-Weiss Linz", "Austria Klagenfurt",
                  "WSG Tirol", "Rheindorf Altach", "SCR Altach">>],
     [name |-> "Swiss Super League", type |-> "domestic", country |-> "Switzerland",
      priority |-> 3, color |-> "#FF0000",
      teams |-> <<"Young Boys", "Basel", "Servette", "Lugano",
                  "St. Gallen", "Zurich", "Lucerne", "Sion", "Winterthur",
                  "Yverdon", "Grasshopper", "Lausanne-Sport">>] >>

CompetitionNames == {competitions[i].name : i \in 1..Len(competitions)}

\* self.competitions[name]
Competition(name) ==
  competitions[CHOOSE i \in 1..Len(competitions) : competitions[i].name = name]

Range(seq) == {seq[i] : i \in 1..Len(seq)}

----------------------------------------------------------------------------
(* Normalisation and validation of team names.                             *)

RECURSIVE RemoveNotIn(_, _)
RemoveNotIn(s, S) ==
  IF s = "" THEN ""
  ELSE (IF Head(s) \in S THEN Head(s) ELSE "") \o RemoveNotIn(Tail(s), S)

name_mappings ==
  << <<"Man City", "Manchester City">>, <<"Man Utd", "Manchester United">>,
     <<"Spurs", "Tottenham">>, <<"Barca", "Barcelona">>,
     <<"Real", "Real Madrid">>, <<"Bayern", "Bayern Munich">>,
     <<"Juve", "Juventus">>, <<"Inter", "Inter Milan">>,
     <<"Roma", "AS Roma">>, <<"Dortmund", "Borussia Dortmund">>,
     <<"PSG", "Paris Saint-Germain">> >>

\* table.get(key, default) of a table of <<key, value>> pairs
Get(table, key, default) ==
  IF \E i \in 1..Len(table) : table[i][1] = key
  THEN table[CHOOSE i \in 1..Len(table) : table[i][1] = key][2]
  ELSE default

\* what [^\w\s\.\'-] does not match
KeptChars == WordChars \cup Whitespace \cup {".", "'", "-"}

\* a normalizer that does not cut the name it returns
clean_team_name_uncut(name) ==
  LET clean == strip(RemoveNotIn(name, KeptChars))
  IN  Get(name_mappings, clean, clean)

clean_team_name(name) ==
  LET clean == strip(RemoveNotIn(name, KeptChars))
  IN  Prefix(Get(name_mappings, clean, clean), 35)

bad_words == {"fixture", "match", "table", "league"}

validate_teams(home, away) ==
  LET lower_home == lower(home)
      lower_away == lower(away)
  IN  ~ \/ Len(home) < 3
        \/ Len(away) < 3
        \/ home = away
        \/ \E word \in bad_words : Contains(lower_home, word)
        \/ \E word \in bad_words : Contains(lower_away, word)

\* the loop over the three patterns from pattern n on: the first match
\* whose cleaned groups validate, <<>> (None) when there is none
RECURSIVE TryPatterns(_, _)
TryPatterns(clean_text, n) ==
  IF n > 3 THEN <<>>
  ELSE LET m == Search(n, clean_text)
           home == clean_team_name(strip(m[1]))
           away == clean_team_name(strip(m[2]))
       IN  IF m # <<>> /\ validate_teams(home, away)
           THEN <<home, away>>
           ELSE TryPatterns(clean_text, n + 1)

extract_team_names(text) ==
  TryPatterns(ReplaceVs(RemoveTimes(text, 1), 1), 1)

identify_competition_from_teams(home_team, away_team) ==
  LET In(team, teams) == \E j \in 1..Len(teams) : teams[j] = team
      hits == {i \in 1..Len(competitions) :
                 /\ competitions[i].teams # <<>>
                 /\ \/ In(home_team, competitions[i].teams)
                    \/ In(away_team, competitions[i].teams)}
  IN  IF hits # {} THEN competitions[SetMin(hits)].name ELSE "Premier League"

tv_mappings ==
  << <<"UEFA Champions League", "BT Sport, CBS Sports">>,
     <<"UEFA Europa League", "BT Sport">>,
     <<"Premier League", "Sky Sports, BBC Sport">>,
     <<"La Liga", "ESPN, Sky Sports">>,
     <<"Serie A", "BT Sport, ESPN">>,
     <<"Bundesliga", "Sky Sports">>,
     <<"Ligue 1", "BT Sport">> >>

get_tv_info(competition) == Get(tv_mappings, competition, "Check local listings")

----------------------------------------------------------------------------
(* Dates.  A day is a number of days since Monday 26 October 2026, so that *)
(* day % 7 is datetime.weekday() and the days of a run and of the two      *)
(* weeks after it cross a month end.                                       *)

DayNames ==
  <<"Monday", "Tuesday", "Wednesday", "Thursday", "Friday", "Saturday", "Sunday">>

weekday(day) == day % 7

\* strftime('%A')
DayName(day) == DayNames[weekday(day) + 1]

DayOfMonth(day) == IF day <= 5 THEN 26 + day ELSE day - 5
MonthName(day) == IF day <= 5 THEN "October" ELSE "November"
MonthNumber(day) == IF day <= 5 THEN 10 ELSE 11

\* %d, %H, %M, %S: two digits, zero padded
TwoDigits(n) == At(DigitChars, (n \div 10) + 1) \o At(DigitChars, (n % 10) + 1)

\* strftime('%A, %d %B %Y')
FormatDate(day) ==
  DayName(day) \o ", " \o TwoDigits(DayOfMonth(day)) \o " " \o MonthName(day)
    \o " 2026"

get_upcoming_match_date(today) ==
  LET days_ahead == 5 - weekday(today)
  IN  FormatDate(today + (IF days_ahead <= 0 THEN days_ahead + 7 ELSE days_ahead))

----------------------------------------------------------------------------
(* Extraction.  An element of a fetched page is [tag, class, text]: its    *)
(* tag name, its class attribute and the text get_text() finds in it.      *)

skip_words == {"FINAL", "FT", "RESULT", "ENDED", "LIVE"}
skip_scores == {"0-0", "1-1", "2-1", "3-0"}

\* the record of a fixture read from a website (lines 324-335)
ExtractedFixture(today, match_time, home_team, away_team, source_name) ==
  LET competition == identify_competition_from_teams(home_team, away_team)
  IN  [date |-> get_upcoming_match_date(today),
       time |-> match_time,
       home_team |-> home_team,
       away_team |-> away_team,
       competition |-> competition,
       country |-> Competition(competition).country,
       status |-> "Scheduled",
       tv_info |-> get_tv_info(competition),
       source |-> source_name,
       type |-> "real_extraction"]

\* a statement in the try block of parse_fixture_element raises on this
\* element: the elements marked so
Raises(element) == "raises" \in DOMAIN element

\* <<fixture>>, or <<>> for None; what raises ends in the except branch
\* of lines 337-338, which returns None
parse_fixture_element(element, source_name, today) ==
  LET text == strip(element.text)
      upper_text == upper(text)
      match_time == time_match(text)
      teams == extract_team_names(text)
  IN  IF Raises(element) THEN <<>>
      ELSE IF \/ Len(text) < 15
         \/ \E word \in skip_words : Contains(upper_text, word)
         \/ \E score \in skip_scores : Contains(text, score)
      THEN <<>>
      ELSE IF match_time = "" THEN <<>>
      ELSE IF teams = <<>> THEN <<>>
      ELSE <<ExtractedFixture(today, match_time, teams[1], teams[2],
                              source_name)>>

\* the selectors of parse_website_fixtures, in order: [class*="x"] is
\* <<"class*=", x>>, a tag name is <<"tag", x>>, .x is <<"class", x>>
selectors ==
  << <<"class*=", "fixture">>, <<"class*=", "match">>, <<"class*=", "game">>,
     <<"class*=", "event">>, <<"tag", "tr">>, <<"class", "fixture">>,
     <<"class", "match">> >>

Matches(element, selector) ==
  CASE selector[1] = "class*=" -> Contains(element.class, selector[2])
    [] selector[1] = "tag" -> element.tag = selector[2]
    [] selector[1] = "class" ->
         Contains(" " \o element.class \o " ", " " \o selector[2] \o " ")

RECURSIVE SelectSeq2(_, _)
SelectSeq2(elements, selector) ==
  IF elements = <<>> THEN <<>>
  ELSE (IF Matches(Head(elements), selector) THEN <<Head(elements)>> ELSE <<>>)
         \o SelectSeq2(Tail(elements), selector)

\* soup.select(selector)[:20]
select(soup, selector) ==
  LET found == SelectSeq2(soup, selector)
  IN  IF Len(found) > 20 THEN SubSeq(found, 1, 20) ELSE found

RECURSIVE ParseElements(_, _, _)
ParseElements(elements, source_name, today) ==
  IF elements = <<>> THEN <<>>
  ELSE parse_fixture_element(Head(elements), source_name, today)
         \o ParseElements(Tail(elements), source_name, today)

RECURSIVE ParseSelectors(_, _, _, _)
ParseSelectors(soup, source_name, today, n) ==
  IF n > Len(selectors) THEN <<>>
  ELSE ParseElements(select(soup, selectors[n]), source_name, today)
         \o ParseSelectors(soup, source_name, today, n + 1)

\* a parser that a raising element ends: it returns what it has found
\* in front of that element (the except branch of lines 288-289)
parse_website_fixtures_ended_by_element(soup, source_name, today) ==
  LET raising == {k \in 1..Len(soup) : Raises(soup[k])}
  IN  ParseSelectors(IF raising = {} THEN soup
                     ELSE SubSeq(soup, 1, SetMin(raising) - 1),
                     source_name, today, 1)

parse_website_fixtures(soup, source_name, today) ==
  ParseSelectors(soup, source_name, today, 1)

sources ==
  << [url |-> "https://www.espn.com/soccer/fixtures", name |-> "ESPN"],
     [url |-> "https://www.bbc.com/sport/football/fixtures", name |-> "BBC Sport"],
     [url |-> "https://www.skysports.com/football/fixtures", name |-> "Sky Sports"] >>

----------------------------------------------------------------------------
(* Schedule generation.                                                    *)

\* a generator that tags its fixtures with the name of a website
generated_source_of_a_website == "ESPN"

generated_source == "Daily Football List"

\* the record of a generated fixture (lines 444-455, 475-486, 510-521)
GeneratedFixture(day, match_time, home_team, away_team, comp) ==
  [date |-> FormatDate(day),
   time |-> match_time,
   home_team |-> home_team,
   away_team |-> away_team,
   competition |-> comp,
   country |-> Competition(comp).country,
   status |-> "Scheduled",
   tv_info |-> get_tv_info(comp),
   source |-> generated_source,
   type |-> "generated"]

\* the two fixtures of the i-th (from 0) competition of a league day
LeagueDayFixtures(day, comps, times, i) ==
  LET comp == comps[i + 1]
      teams == IF comp \in CompetitionNames THEN Competition(comp).teams ELSE <<>>
      match(match_num) ==
        GeneratedFixture(day, times[(match_num % Len(times)) + 1],
                         teams[((i * 4 + match_num * 2) % Len(teams)) + 1],
                         teams[((i * 4 + match_num * 2 + 1) % Len(teams)) + 1],
                         comp)
  IN  IF teams # <<>> /\ Len(teams) >= 4 THEN <<match(0), match(1)>> ELSE <<>>

RECURSIVE LeagueDay(_, _, _, _)
LeagueDay(day, comps, times, i) ==
  IF i >= Len(comps) THEN <<>>
  ELSE LeagueDayFixtures(day, comps, times, i) \o LeagueDay(day, comps, times, i + 1)

generate_weekend_fixtures(day) ==
  IF DayName(day) = "Saturday"
  THEN LeagueDay(day,
                 <<"Premier League", "La Liga", "Serie A", "Bundesliga", "Ligue 1">>,
                 <<"12:30", "15:00", "17:30">>, 0)
  ELSE LeagueDay(day, <<"Premier League", "La Liga", "Serie A">>,
                 <<"14:00", "16:30", "19:00">>, 0)

generate_european_fixtures(day) ==
  LeagueDay(day,
            <<"UEFA Champions League", "UEFA Europa League", "UEFA Conference League">>,
            <<"17:45", "20:00">>, 0)

parent_leagues ==
  << <<"FA Cup", "Premier League">>, <<"Copa del Rey", "La Liga">>,
     <<"Coppa Italia", "Serie A">>, <<"DFB-Pokal", "Bundesliga">>,
     <<"Coupe de France", "Ligue 1">> >>

get_parent_league(cup_competition) == Get(parent_leagues, cup_competition, "")

cup_competitions ==
  <<"FA Cup", "Copa del Rey", "Coppa Italia", "DFB-Pokal", "Coupe de France">>

\* the fixture of the i-th (from 0) selected cup
CupFixture(day, selected_cups, times, i) ==
  LET comp == selected_cups[i + 1]
      parent_league == get_parent_league(comp)
      teams == Prefix(Competition(parent_league).teams, 8)
  IN  IF comp \in CompetitionNames /\ parent_league # ""
         /\ parent_league \in CompetitionNames
      THEN <<GeneratedFixture(day, times[(i % Len(times)) + 1],
                              teams[((i * 2) % Len(teams)) + 1],
                              teams[((i * 2 + 1) % Len(teams)) + 1], comp)>>
      ELSE <<>>

RECURSIVE CupDay(_, _, _, _)
CupDay(day, selected_cups, times, i) ==
  IF i >= Len(selected_cups) THEN <<>>
  ELSE CupFixture(day, selected_cups, times, i)
         \o CupDay(day, selected_cups, times, i + 1)

generate_weekday_fixtures(day) ==
  CupDay(day, Prefix(cup_competitions, 2), <<"19:45", "20:00">>, 0)

DayFixtures(day) ==
  IF DayName(day) \in {"Saturday", "Sunday"} THEN generate_weekend_fixtures(day)
  ELSE IF DayName(day) \in {"Tuesday", "Wednesday", "Thursday"}
       THEN generate_european_fixtures(day)
       ELSE generate_weekday_fixtures(day)

RECURSIVE GenerateDays(_, _)
GenerateDays(base_date, day_offset) ==
  IF day_offset >= 7 THEN <<>>
  ELSE DayFixtures(base_date + day_offset) \o GenerateDays(base_date, day_offset + 1)

generate_comprehensive_fixtures(today) == GenerateDays(today, 0)

----------------------------------------------------------------------------
(* Processing: remove_duplicates, sort_fixtures, enhance_fixtures.         *)

\* the key of remove_duplicates (line 581)
DedupKey(fixture) ==
  fixture.date \o "-" \o fixture.time \o "-" \o fixture.home_team \o "-"
    \o fixture.away_team

RECURSIVE RemoveDuplicatesFrom(_, _)
RemoveDuplicatesFrom(fixtures, seen) ==
  IF fixtures = <<>> THEN <<>>
  ELSE LET key == DedupKey(Head(fixtures))
       IN  IF key \notin seen
           THEN <<Head(fixtures)>>
                  \o RemoveDuplicatesFrom(Tail(fixtures), seen \cup {key})
           ELSE RemoveDuplicatesFrom(Tail(fixtures), seen)

\* a deduplication that keeps the last fixture of each key
RECURSIVE remove_duplicates_keeping_last(_)
remove_duplicates_keeping_last(fixtures) ==
  IF fixtures = <<>> THEN <<>>
  ELSE (IF \E i \in 2..Len(fixtures) : DedupKey(fixtures[i]) = DedupKey(fixtures[1])
        THEN <<>> ELSE <<Head(fixtures)>>)
         \o remove_duplicates_keeping_last(Tail(fixtures))

remove_duplicates(fixtures) == RemoveDuplicatesFrom(fixtures, {})

\* the printable ASCII characters in code point order, behind \t \n \r
\* (without the grave accent, which a TLA+ string cannot hold)
AsciiOrder ==
  "\t\n\r !\"#$%&'()*+,-./0123456789:;<=>?@ABCDEFGHIJKLMNOPQRSTUVWXYZ[\\]^_abcdefghijklmnopqrstuvwxyz{|}~"

Ord == [c \in CharSet(AsciiOrder) |->
          CHOOSE i \in 1..Len(AsciiOrder) : At(AsciiOrder, i) = c]

\* a[i-1:] < b[i-1:] for str: by the first position where they differ,
\* or by length
RECURSIVE StrLessFrom(_, _, _)
StrLessFrom(a, b, i) ==
  IF i > Len(b) THEN FALSE
  ELSE IF i > Len(a) THEN TRUE
  ELSE IF At(a, i) = At(b, i) THEN StrLessFrom(a, b, i + 1)
  ELSE Ord[At(a, i)] < Ord[At(b, i)]

\* a < b for str
StrLess(a, b) == a # b /\ StrLessFrom(a, b, 1)

PriorityTable == [name \in CompetitionNames |-> Competition(name).priority]

\* self.competitions.get(comp, {}).get('priority', 5)
PriorityOf(comp) ==
  IF comp \in CompetitionNames THEN PriorityTable[comp] ELSE 5

\* get_sort_key(f) < get_sort_key(g): tuples of (priority, date, time)
SortKeyLess(f, g) ==
  LET pf == PriorityOf(f.competition)
      pg == PriorityOf(g.competition)
  IN  \/ pf < pg
      \/ pf = pg /\ StrLess(f.date, g.date)
      \/ pf = pg /\ f.date = g.date /\ StrLess(f.time, g.time)

\* fixture put into a sorted list in front of the first element that is
\* not smaller than it
RECURSIVE InsertSorted(_, _)
InsertSorted(fixture, sorted) ==
  IF sorted # <<>> /\ SortKeyLess(Head(sorted), fixture)
  THEN <<Head(sorted)>> \o InsertSorted(fixture, Tail(sorted))
  ELSE <<fixture>> \o sorted

\* sorted(fixtures, key=get_sort_key): a stable sort.  The sorted rest is
\* bound as a value, so that it is computed once for each fixture put in
RECURSIVE sort_fixtures(_)
sort_fixtures(fixtures) ==
  IF fixtures = <<>> THEN <<>>
  ELSE CHOOSE sorted \in {InsertSorted(Head(fixtures), rest) :
                            rest \in {sort_fixtures(Tail(fixtures))}} : TRUE

calculate_match_importance(comp, priority) ==
  IF Contains(comp, "Champions League") THEN 5
  ELSE IF Contains(comp, "Europa League") \/ Contains(comp, "Conference League")
       THEN 4
       ELSE IF priority = 1 THEN 4
            ELSE IF priority = 2 THEN 3 ELSE 2

\* one fixture with the metadata of enhance_fixtures added
Enhance(fixture) ==
  LET comp == Competition(fixture.competition)
  IN  [date |-> fixture.date, time |-> fixture.time,
       home_team |-> fixture.home_team, away_team |-> fixture.away_team,
       competition |-> fixture.competition, country |-> fixture.country,
       status |-> fixture.status, tv_info |-> fixture.tv_info,
       source |-> fixture.source, type |-> fixture.type,
       competition_type |-> comp.type,
       competition_color |-> comp.color,
       priority |-> comp.priority,
       importance |-> calculate_match_importance(fixture.competition, comp.priority),
       venue |-> fixture.home_team \o " Stadium"]

RECURSIVE enhance_fixtures(_)
enhance_fixtures(fixtures) ==
  IF fixtures = <<>> THEN <<>>
  ELSE <<Enhance(Head(fixtures))>> \o enhance_fixtures(Tail(fixtures))

\* the three steps of lines 564-571, each on the value of the step before
process_fixtures(fixtures) ==
  IF fixtures = <<>> THEN <<>>
  ELSE CHOOSE enhanced_fixtures \in
         {enhance_fixtures(sorted_fixtures) :
            sorted_fixtures \in
              {sort_fixtures(unique_fixtures) :
                 unique_fixtures \in {remove_duplicates(fixtures)}}} : TRUE

----------------------------------------------------------------------------
(* Export and summary.                                                     *)

\* strftime('%Y%m%d_%H%M%S') of second `clock` of day `day`
Timestamp(day, clock) ==
  "2026" \o TwoDigits(MonthNumber(day)) \o TwoDigits(DayOfMonth(day)) \o "_"
    \o TwoDigits(clock \div 3600) \o TwoDigits((clock \div 60) % 60)
    \o TwoDigits(clock % 60)

\* the formats of export_daily_football_list, in the order it writes them
formats == <<"xlsx", "csv", "json", "html">>

\* excel_file, csv_file, json_file, html_file (lines 664, 721, 730, 747)
ExportPath(timestamp, format) ==
  "exports/Daily_Football_List_" \o timestamp \o "." \o format

summary_path == "exports/platform_summary.json"

\* counts that hold an entry "Unknown" when there is nothing to count
CountByWithUnknown(keys) ==
  [v \in Range(keys) \cup (IF keys = <<>> THEN {"Unknown"} ELSE {}) |->
     Cardinality({i \in 1..Len(keys) : keys[i] = v})]

\* counts that hold 1 for each value, however often it occurs
CountDistinct(keys) == [v \in Range(keys) |-> 1]

\* a dict of counts: how often each value is in the sequence keys
CountBy(keys) ==
  [v \in Range(keys) |-> Cardinality({i \in 1..Len(keys) : keys[i] = v})]

\* a summary whose total is the number of competitions
PlatformSummaryCountingCompetitions(fixtures, exported_files) ==
  LET comp_counts == CountBy([i \in 1..Len(fixtures) |-> fixtures[i].competition])
      country_counts == CountBy([i \in 1..Len(fixtures) |-> fixtures[i].country])
  IN  [total_fixtures |-> Cardinality(DOMAIN comp_counts),
       competitions_covered |-> Cardinality(DOMAIN comp_counts),
       countries_covered |-> Cardinality(DOMAIN country_counts),
       competition_breakdown |-> comp_counts,
       country_breakdown |-> country_counts,
       exported_files |-> exported_files]

\* the summary dict of generate_platform_summary (lines 995-1010)
PlatformSummary(fixtures, exported_files) ==
  LET comp_counts == CountBy([i \in 1..Len(fixtures) |-> fixtures[i].competition])
      country_counts == CountBy([i \in 1..Len(fixtures) |-> fixtures[i].country])
  IN  [total_fixtures |-> Len(fixtures),
       competitions_covered |-> Cardinality(DOMAIN comp_counts),
       countries_covered |-> Cardinality(DOMAIN country_counts),
       competition_breakdown |-> comp_counts,
       country_breakdown |-> country_counts,
       exported_files |-> exported_files]

----------------------------------------------------------------------------
(* The inputs of a run: the day and second it starts, what each website    *)
(* answers, and which file operations fail.                                *)

\* the pages a website may answer with
PagePool ==
  << \* a fixture of the generated Saturday schedule that two selectors
     \* find, the same fixture in another case, and a fixture of a team
     \* against itself in another case
     << [tag |-> "div", class |-> "match",
         text |-> "12:30 Arsenal vs Manchester City"],
        [tag |-> "div", class |-> "fixture-row",
         text |-> " 12:30 arsenal vs manchester city "],
        [tag |-> "tr", class |-> "", text |-> "15:00 Arsenal vs arsenal"] >>,
     \* five fixtures, a result without a time, a heading
     << [tag |-> "tr", class |-> "", text |-> "15:00 Wolves vs Everton"],
        [tag |-> "tr", class |-> "", text |-> "17:30 Fulham - Brentford"],
        [tag |-> "tr", class |-> "", text |-> "20:00 Sevilla | Roma"],
        [tag |-> "tr", class |-> "", text |-> "14:00 Real v Barca"],
        [tag |-> "tr", class |-> "", text |-> "19:45 Aston Villa against Burnley"],
        [tag |-> "tr", class |-> "", text |-> "Arsenal 2 - 1 Chelsea"],
        [tag |-> "tr", class |-> "", text |-> "Premier League Table 15:00"] >>,
     \* one fixture among elements that give nothing
     << [tag |-> "li", class |-> "game", text |-> "15:00 Lyon vs Nice"],
        [tag |-> "div", class |-> "event", text |-> "Liverpool vs Chelsea 15:00"],
        [tag |-> "span", class |-> "score", text |-> "15:00 Lens vs Metz"] >>,
     \* a page without fixtures
     << [tag |-> "div", class |-> "nav", text |-> "Fixtures and results"] >> >>

\* how many pages of PagePool a website may answer with
NumPages == 2
\* how many days, from Monday 26 October 2026 on, a run may start on
StartDays == 7
\* how many file operations of a run may fail
MaxFaults == 1

Pages == 1..(IF NumPages < Len(PagePool) THEN NumPages ELSE Len(PagePool))

\* the second of the day the run starts at
StartClocks == {6 * 3600}

\* no method is called by itself: the run of main
NoCall == [fn |-> "main", arg |-> <<>>, out |-> <<>>]

VARIABLES
  pc,                 \* the phase of generate_daily_football_list, or "done"
  today,              \* the day datetime.now() is in
  clock,              \* the second of that day
  source_index,       \* extract_real_fixtures: the source the loop is at
  responses,          \* history: what each request ended with
  real_fixtures,      \* extract_real_fixtures: fixtures
  generated_fixtures,
  all_fixtures,
  processed_fixtures,
  format_index,       \* export_daily_football_list: the format it is at
  exported_files,
  files,              \* the files written whole under exports/, as
                      \* <<path, content>>
  io_faults,          \* the file operations that have failed
  result,             \* main: "running", "success" or "failed" (except branch)
  trace,              \* history: the steps taken, in order
  call                \* a method called by itself: its name, its argument
                      \* and what it has returned

vars ==
  <<pc, today, clock, source_index, responses, real_fixtures, generated_fixtures,
    all_fixtures, processed_fixtures, format_index, exported_files, files,
    io_faults, result, trace, call>>

Init ==
  /\ pc = "extract"
  /\ today \in 0..(StartDays - 1)
  /\ clock \in StartClocks
  /\ source_index = 1
  /\ responses = <<>>
  /\ real_fixtures = <<>>
  /\ generated_fixtures = <<>>
  /\ all_fixtures = <<>>
  /\ processed_fixtures = <<>>
  /\ format_index = 1
  /\ exported_files = <<>>
  /\ files = {}
  /\ io_faults = 0
  /\ result = "running"
  /\ trace = <<>>
  /\ call = NoCall

\* the phases of generate_daily_football_list in the order it runs them
phases == <<"extract", "generate", "process", "export", "summary", "finish">>

\* phases in which processing comes before generation
NextPhaseProcessingFirst(phase) ==
  CASE phase = "extract" -> "process"
    [] phase = "process" -> "generate"
    [] phase = "generate" -> "export"
    [] phase = "export" -> "summary"
    [] phase = "summary" -> "finish"

NextPhase(phase) ==
  phases[(CHOOSE i \in 1..Len(phases) : phases[i] = phase) + 1]

\* a loop that an exception ends (break for continue)
NextSourceEndingOnError(i, raised) == IF raised THEN Len(sources) + 1 ELSE i + 1

\* the source the loop of extract_real_fixtures goes to after source i,
\* whether the body raised (continue) or not
NextSource(i, raised) == i + 1

\* fixtures after a request that raised or did not answer 200
KeptFixtures(fixtures) == fixtures

\* one iteration of the loop of extract_real_fixtures; behind the last one
\* the function returns and all_fixtures is extended (lines 216-217)
Iteration(response, fixtures, raised) ==
  /\ pc = "extract"
  /\ source_index <= Len(sources)
  /\ responses' = Append(responses, response)
  /\ real_fixtures' = fixtures
  /\ source_index' = NextSource(source_index, raised)
  /\ trace' = trace \o <<<<"request", sources[source_index].name>>>>
                \o (IF raised THEN <<>> ELSE <<<<"sleep", "2">>>>)
  /\ IF source_index' > Len(sources)
     THEN /\ pc' = NextPhase("extract")
          /\ all_fixtures' = all_fixtures \o fixtures
     ELSE UNCHANGED <<pc, all_fixtures>>
  /\ UNCHANGED <<call, today, clock, generated_fixtures, processed_fixtures,
                 format_index, exported_files, files, io_faults, result>>

\* the request answers 200 with a page
RequestOK ==
  \E n \in Pages :
    Iteration([status |-> "200", page |-> n],
              real_fixtures
                \o parse_website_fixtures(PagePool[n], sources[source_index].name,
                                          today),
              FALSE)

\* the request answers with another status
RequestStatus ==
  Iteration([status |-> "404", page |-> 0], KeptFixtures(real_fixtures), FALSE)

\* session.get raises: a timeout, a connection or DNS error
RequestRaises ==
  Iteration([status |-> "raised", page |-> 0], KeptFixtures(real_fixtures), TRUE)

\* a phase 2 that generates only below five extracted fixtures
Phase2FixturesBelowMinimum(real, day) ==
  IF Len(remove_duplicates(real)) < 5 THEN generate_comprehensive_fixtures(day)
  ELSE <<>>

\* the fixtures phase 2 generates in a run that extracted `real`
Phase2Fixtures(real, day) == generate_comprehensive_fixtures(day)

\* generated fixtures used only when nothing was extracted
CombinedWhenEmpty(all, generated) == IF all = <<>> THEN generated ELSE all

\* generated fixtures put in front of the extracted ones
CombinedGeneratedFirst(all, generated) == generated \o all

\* all_fixtures after phases 1 and 2
Combined(all, generated) == all \o generated

Generate ==
  /\ pc = "generate"
  /\ generated_fixtures' = Phase2Fixtures(real_fixtures, today)
  /\ all_fixtures' = Combined(all_fixtures, generated_fixtures')
  /\ trace' = Append(trace, <<"generate", "">>)
  /\ pc' = NextPhase("generate")
  /\ UNCHANGED <<call, today, clock, source_index, responses, real_fixtures,
                 processed_fixtures, format_index, exported_files, files,
                 io_faults, result>>

Process ==
  /\ pc = "process"
  /\ processed_fixtures' = process_fixtures(all_fixtures)
  /\ trace' = trace \o (IF all_fixtures = <<>> THEN <<>>
                        ELSE << <<"remove_duplicates", "">>, <<"sort_fixtures", "">>,
                                <<"enhance_fixtures", "">> >>)
  /\ pc' = NextPhase("process")
  /\ UNCHANGED <<call, today, clock, source_index, responses, real_fixtures,
                 generated_fixtures, all_fixtures, format_index, exported_files,
                 files, io_faults, result>>

\* an exception that leaves generate_daily_football_list: the except
\* branch of main (lines 1033-1035) prints and returns
Escapes ==
  /\ pc' = "done"
  /\ result' = "failed"

\* os.makedirs and the preparation of the data frame (lines 635-660)
ExportBegin ==
  /\ pc = "export"
  /\ format_index' = 1
  /\ exported_files' = <<>>
  /\ trace' = Append(trace, <<"export", "">>)
  /\ pc' = "write"
  /\ UNCHANGED <<call, today, clock, source_index, responses, real_fixtures,
                 generated_fixtures, all_fixtures, processed_fixtures, files,
                 io_faults, result>>

\* os.makedirs raises
ExportBeginFails ==
  /\ pc = "export"
  /\ io_faults < MaxFaults
  /\ io_faults' = io_faults + 1
  /\ trace' = Append(trace, <<"export", "raised">>)
  /\ Escapes
  /\ UNCHANGED <<call, today, clock, source_index, responses, real_fixtures,
                 generated_fixtures, all_fixtures, processed_fixtures,
                 format_index, exported_files, files>>

\* an export that has no except branch: the exception leaves it
AfterFormatUncaught(i, failed) ==
  IF failed THEN "done" ELSE IF i < Len(formats) THEN "write" ELSE NextPhase("export")

\* where export_daily_football_list goes after the try block of format i,
\* whether it ended in its except branch or not
AfterFormat(i, failed) == IF i < Len(formats) THEN "write" ELSE NextPhase("export")

\* how many try blocks may raise: MaxFaults in a run of main, each of
\* them when the export is called on a batch by itself
FaultBudget == IF call = NoCall THEN MaxFaults ELSE Len(formats)

\* a block that puts its path on the list before it writes the file
AppendedBeforeWrite(exported, path, raised) == Append(exported, path)

\* exported_files after the try block of a format: the append stands
\* behind the write in the block, so a block that raised has not appended
AppendedIfWritten(exported, path, raised) ==
  IF raised THEN exported ELSE Append(exported, path)

\* the try block of one format completes
WriteFormat ==
  /\ pc = "write"
  /\ LET path == ExportPath(Timestamp(today, clock), formats[format_index])
     IN  /\ files' = {f \in files : f[1] # path}
                       \cup {<<path, [rows |-> Len(processed_fixtures)]>>}
         /\ exported_files' = AppendedIfWritten(exported_files, path, FALSE)
  /\ trace' = Append(trace, <<"write", formats[format_index]>>)
  /\ format_index' = format_index + 1
  /\ pc' = AfterFormat(format_index, FALSE)
  /\ UNCHANGED <<call, today, clock, source_index, responses, real_fixtures,
                 generated_fixtures, all_fixtures, processed_fixtures,
                 io_faults, result>>

\* the try block of one format raises: its except branch prints
WriteFormatFails ==
  /\ pc = "write"
  /\ io_faults < FaultBudget
  /\ io_faults' = io_faults + 1
  /\ exported_files' =
       AppendedIfWritten(exported_files,
                         ExportPath(Timestamp(today, clock), formats[format_index]),
                         TRUE)
  /\ trace' = Append(trace, <<"write failed", formats[format_index]>>)
  /\ format_index' = format_index + 1
  /\ pc' = AfterFormat(format_index, TRUE)
  /\ IF pc' = "done" THEN result' = "failed" ELSE UNCHANGED result
  /\ UNCHANGED <<call, today, clock, source_index, responses, real_fixtures,
                 generated_fixtures, all_fixtures, processed_fixtures, files>>

\* generate_platform_summary writes exports/platform_summary.json
Summary ==
  /\ pc = "summary"
  /\ files' = {f \in files : f[1] # summary_path}
                \cup {<<summary_path,
                        PlatformSummary(processed_fixtures, exported_files)>>}
  /\ trace' = Append(trace, <<"summary", "">>)
  /\ pc' = NextPhase("summary")
  /\ UNCHANGED <<call, today, clock, source_index, responses, real_fixtures,
                 generated_fixtures, all_fixtures, processed_fixtures,
                 format_index, exported_files, io_faults, result>>

\* open or json.dump raises in generate_platform_summary (lines 1012-1013)
SummaryFails ==
  /\ pc = "summary"
  /\ io_faults < MaxFaults
  /\ io_faults' = io_faults + 1
  /\ trace' = Append(trace, <<"summary", "raised">>)
  /\ Escapes
  /\ UNCHANGED <<call, today, clock, source_index, responses, real_fixtures,
                 generated_fixtures, all_fixtures, processed_fixtures,
                 format_index, exported_files, files>>

\* generate_daily_football_list returns to main (lines 1028-1031)
Finish ==
  /\ pc = "finish"
  /\ pc' = "done"
  /\ result' = "success"
  /\ UNCHANGED <<call, today, clock, source_index, responses, real_fixtures,
                 generated_fixtures, all_fixtures, processed_fixtures,
                 format_index, exported_files, files, io_faults, trace>>

Next ==
  \/ RequestRaises
  \/ RequestStatus
  \/ RequestOK
  \/ Generate
  \/ Process
  \/ ExportBegin
  \/ ExportBeginFails
  \/ WriteFormat
  \/ WriteFormatFails
  \/ Summary
  \/ SummaryFails
  \/ Finish

Spec == Init /\ [][Next]_vars

\* the same run under the scheduling of a process that keeps running
FairSpec == Spec /\ WF_vars(Next)

----------------------------------------------------------------------------
(* The methods called by themselves, on arguments drawn from bounded sets: *)
(* call.arg is the argument and call.out the sequence of what the calls    *)
(* made so far have returned.                                              *)

\* the longest run of letters put into a raw team name
MaxPadding == 40

RECURSIVE Padding(_)
Padding(n) == IF n = 0 THEN "" ELSE "a" \o Padding(n - 1)

\* raw team names: names of the abbreviation table, names with characters
\* the normalizer removes, names of up to 17 + MaxPadding + 3 characters
RawNames ==
  {head \o Padding(n) \o tail :
     head \in {"", " ", "Real", "Man City", "PSG", "Roma", "Inter ", "A&B #1!",
               "St. Mary's-on-Sea"},
     n \in 0..MaxPadding,
     tail \in {"", " ", " x", "x ", " FC"}}

\* fixtures for the batches: three with one key (from two websites and
\* from the generator), one that differs from them in case only, and
\* fixtures of other days, times and priorities
FixturePool ==
  { ExtractedFixture(0, "12:30", "Arsenal", "Manchester City", "ESPN"),
    ExtractedFixture(0, "12:30", "Arsenal", "Manchester City", "BBC Sport"),
    GeneratedFixture(5, "12:30", "Arsenal", "Manchester City", "Premier League"),
    ExtractedFixture(0, "12:30", "arsenal", "manchester city", "ESPN"),
    ExtractedFixture(0, "9:00", "Wolves", "Everton", "Sky Sports"),
    GeneratedFixture(1, "20:00", "Real Madrid", "Manchester City",
                     "UEFA Champions League"),
    GeneratedFixture(1, "17:45", "Sevilla", "Juventus", "UEFA Europa League") }

\* the longest batch of fixtures a method is called on
MaxBatch == 3

RECURSIVE BatchesOf(_)
BatchesOf(n) ==
  IF n = 0 THEN {<<>>}
  ELSE {Append(batch, fixture) : batch \in BatchesOf(n - 1), fixture \in FixturePool}

Batches == UNION {BatchesOf(n) : n \in 0..MaxBatch}

\* an element that would give a fixture, whose parsing raises
RaisingElement ==
  [tag |-> "tr", class |-> "match", text |-> "15:00 Leeds vs Derby",
   raises |-> TRUE]

\* the pages of PagePool, each as it is and with the raising element put
\* at each of its positions
RaisingPagesOf(page) ==
  {SubSeq(page, 1, k) \o more \o SubSeq(page, k + 1, Len(page)) :
     k \in 0..Len(page), more \in {<<>>, <<RaisingElement>>}}

RaisingPages == UNION {RaisingPagesOf(PagePool[n]) : n \in 1..Len(PagePool)}

\* the lists of written files generate_platform_summary is called with
ExportedFileLists ==
  { <<>>,
    <<ExportPath(Timestamp(0, 6 * 3600), "csv")>>,
    <<ExportPath(Timestamp(0, 6 * 3600), "xlsx"), ExportPath(Timestamp(0, 6 * 3600), "csv"),
      ExportPath(Timestamp(0, 6 * 3600), "json"), ExportPath(Timestamp(0, 6 * 3600), "html")>> }

\* texts of finished matches, each with the home team, the two scores
\* and the away team that are written in it
ScoreTexts ==
  << <<"Arsenal 2 - 1 Chelsea", "Arsenal", 2, 1, "Chelsea">>,
     <<"Liverpool 1 - 1 Chelsea", "Liverpool", 1, 1, "Chelsea">>,
     <<"Real Madrid 3-0 Barcelona", "Real Madrid", 3, 0, "Barcelona">>,
     <<"Fulham 4 : 2 Brentford", "Fulham", 4, 2, "Brentford">>,
     <<"Wolves 0 - 5 Everton 15:00", "Wolves", 0, 5, "Everton">> >>

\* the elements parse_fixture_element is called on: the texts of
\* ScoreTexts in a div of class match, and the elements of PagePool
CandidateElements ==
  {[tag |-> "div", class |-> "match", text |-> ScoreTexts[r][1]] :
     r \in 1..Len(ScoreTexts)}
    \cup UNION {Range(PagePool[n]) : n \in 1..Len(PagePool)}

\* the batches the export is called on: none, one fixture, and a day's
\* processed batch of generated fixtures
ExportBatches ==
  BatchesOf(0) \cup BatchesOf(1)
    \cup {process_fixtures(generate_comprehensive_fixtures(0))}

Calls ==
  [fn : {"clean_team_name"}, arg : RawNames, out : {<<>>}]
    \cup [fn : {"remove_duplicates"}, arg : Batches, out : {<<>>}]
    \cup [fn : {"parse_website_fixtures"}, arg : RaisingPages, out : {<<>>}]
    \cup [fn : {"parse_fixture_element"}, arg : CandidateElements, out : {<<>>}]
    \cup [fn : {"sort_fixtures"}, arg : Batches, out : {<<>>}]
    \cup [fn : {"export_daily_football_list"}, arg : ExportBatches, out : {<<>>}]
    \cup [fn : {"generate_platform_summary"},
          arg : [fixtures : Batches, exported_files : ExportedFileLists],
          out : {<<>>}]

\* clean_team_name(name), and clean_team_name of what it returned
CallCleanTeamName ==
  /\ pc = "call"
  /\ call.fn = "clean_team_name"
  /\ Len(call.out) < 2
  /\ call' = [call EXCEPT
                !.out = Append(@, clean_team_name(IF @ = <<>> THEN call.arg
                                                  ELSE @[Len(@)]))]
  /\ UNCHANGED <<pc, today, clock, source_index, responses, real_fixtures,
                 generated_fixtures, all_fixtures, processed_fixtures,
                 format_index, exported_files, files, io_faults, result, trace>>

\* remove_duplicates(fixtures)
CallRemoveDuplicates ==
  /\ pc = "call"
  /\ call.fn = "remove_duplicates"
  /\ call.out = <<>>
  /\ call' = [call EXCEPT !.out = <<remove_duplicates(call.arg)>>]
  /\ UNCHANGED <<pc, today, clock, source_index, responses, real_fixtures,
                 generated_fixtures, all_fixtures, processed_fixtures,
                 format_index, exported_files, files, io_faults, result, trace>>

\* parse_website_fixtures(soup, source_name)
CallParseWebsiteFixtures ==
  /\ pc = "call"
  /\ call.fn = "parse_website_fixtures"
  /\ call.out = <<>>
  /\ call' = [call EXCEPT !.out = <<parse_website_fixtures(call.arg, "ESPN", today)>>]
  /\ UNCHANGED <<pc, today, clock, source_index, responses, real_fixtures,
                 generated_fixtures, all_fixtures, processed_fixtures,
                 format_index, exported_files, files, io_faults, result, trace>>

\* generate_platform_summary(fixtures, exported_files)
CallGeneratePlatformSummary ==
  /\ pc = "call"
  /\ call.fn = "generate_platform_summary"
  /\ call.out = <<>>
  /\ LET summary == PlatformSummary(call.arg.fixtures, call.arg.exported_files)
     IN  /\ files' = {f \in files : f[1] # summary_path}
                       \cup {<<summary_path, summary>>}
         /\ call' = [call EXCEPT !.out = <<summary>>]
  /\ UNCHANGED <<pc, today, clock, source_index, responses, real_fixtures,
                 generated_fixtures, all_fixtures, processed_fixtures,
                 format_index, exported_files, io_faults, result, trace>>

\* parse_fixture_element(element, source_name): call.out[1] is <<>> for
\* None and <<fixture>> for a fixture
CallParseFixtureElement ==
  /\ pc = "call"
  /\ call.fn = "parse_fixture_element"
  /\ call.out = <<>>
  /\ call' = [call EXCEPT !.out = <<parse_fixture_element(call.arg, "ESPN", today)>>]
  /\ UNCHANGED <<pc, today, clock, source_index, responses, real_fixtures,
                 generated_fixtures, all_fixtures, processed_fixtures,
                 format_index, exported_files, files, io_faults, result, trace>>

\* sort_fixtures(fixtures)
CallSortFixtures ==
  /\ pc = "call"
  /\ call.fn = "sort_fixtures"
  /\ call.out = <<>>
  /\ call' = [call EXCEPT !.out = <<sort_fixtures(call.arg)>>]
  /\ UNCHANGED <<pc, today, clock, source_index, responses, real_fixtures,
                 generated_fixtures, all_fixtures, processed_fixtures,
                 format_index, exported_files, files, io_faults, result, trace>>

\* a call of export_daily_football_list is phases 4 and 5 of
\* generate_daily_football_list (lines 231-235) on the batch call.arg: it
\* starts where ExportBegin starts and runs the actions of the export and
\* of the summary
CallInit ==
  /\ call \in Calls
  /\ pc = (IF call.fn = "export_daily_football_list" THEN "export" ELSE "call")
  /\ processed_fixtures =
       (IF call.fn = "export_daily_football_list" THEN call.arg ELSE <<>>)
  /\ today = 0
  /\ clock \in StartClocks
  /\ source_index = 1
  /\ responses = <<>>
  /\ real_fixtures = <<>>
  /\ generated_fixtures = <<>>
  /\ all_fixtures = <<>>
  /\ format_index = 1
  /\ exported_files = <<>>
  /\ files = {}
  /\ io_faults = 0
  /\ result = "running"
  /\ trace = <<>>

CallNext ==
  \/ CallCleanTeamName
  \/ CallRemoveDuplicates
  \/ CallParseWebsiteFixtures
  \/ CallGeneratePlatformSummary
  \/ CallParseFixtureElement
  \/ CallSortFixtures
  \/ ExportBegin
  \/ WriteFormat
  \/ WriteFormatFails
  \/ Summary

CallSpec == CallInit /\ [][CallNext]_vars

----------------------------------------------------------------------------
(* What the claims are stated with.                                        *)

SourceNames == {sources[i].name : i \in 1..Len(sources)}

\* the steps of the trace named e, in order
RECURSIVE Steps(_, _)
Steps(tr, E) ==
  IF tr = <<>> THEN <<>>
  ELSE (IF Head(tr)[1] \in E THEN <<Head(tr)>> ELSE <<>>) \o Steps(Tail(tr), E)

Happened(e) == \E i \in 1..Len(trace) : trace[i][1] = e

\* the batch of the run is final: process_fixtures has returned
BatchFinal == pc \in {"export", "write", "summary", "finish", "done"}

\* process_fixtures has just returned
BatchReturned == pc = "export"

AllRequestsFailed ==
  /\ Len(responses) = Len(sources)
  /\ \A i \in 1..Len(responses) : responses[i].status # "200"

----------------------------------------------------------------------------
\* C1: the batch process_fixtures returns holds no two records with the
\* same composite key: home team and away team compared without case, and
\* the kick-off (date and time).
C1_NoTwoRecordsShareCompositeKey ==
  BatchReturned =>
    \A i, j \in 1..Len(processed_fixtures) :
      i < j =>
        ~ /\ processed_fixtures[i].time = processed_fixtures[j].time
          /\ processed_fixtures[i].date = processed_fixtures[j].date
          /\ lower(processed_fixtures[i].home_team)
               = lower(processed_fixtures[j].home_team)
          /\ lower(processed_fixtures[i].away_team)
               = lower(processed_fixtures[j].away_team)

\* C2: no record of the final batch has a home team equal to its away team
\* when compared without case.
C2_NoTeamAgainstItself ==
  BatchReturned =>
    \A i \in 1..Len(processed_fixtures) :
      lower(processed_fixtures[i].home_team) # lower(processed_fixtures[i].away_team)

C4_FallbackRecordInBatch ==
  (BatchFinal /\ Len(real_fixtures) < 5) =>
    \E i \in 1..Len(processed_fixtures) :
      processed_fixtures[i].source = "Daily Football List"

C4_FewRealSharingAKey ==
  /\ BatchReturned
  /\ Len(real_fixtures) < 5
  /\ \E i \in 1..Len(real_fixtures), j \in 1..Len(generated_fixtures) :
       DedupKey(real_fixtures[i]) = DedupKey(generated_fixtures[j])
  /\ Len(processed_fixtures) < Len(all_fixtures)

\* C5: in the final batch a generated record never carries the source of a
\* website and an extracted record always does: the source tells them apart.
C5_SourceTellsRealFromGenerated ==
  \A i \in 1..Len(processed_fixtures) :
    /\ processed_fixtures[i].type \in {"generated", "real_extraction"}
    /\ processed_fixtures[i].type = "generated"
         <=> processed_fixtures[i].source \notin SourceNames

C5_BatchOfBothKinds ==
  /\ BatchReturned
  /\ \E i, j \in 1..Len(processed_fixtures) :
       /\ processed_fixtures[i].type = "generated"
       /\ processed_fixtures[j].type = "real_extraction"

\* what a response adds to the fixtures of extract_real_fixtures
Contribution(k) ==
  IF responses[k].status = "200"
  THEN parse_website_fixtures(PagePool[responses[k].page], sources[k].name, today)
  ELSE <<>>

RECURSIVE Contributions(_)
Contributions(k) ==
  IF k > Len(responses) THEN <<>> ELSE Contribution(k) \o Contributions(k + 1)

\* C6: extract_real_fixtures requests each of the three sources once, in
\* the order ESPN, BBC Sport, Sky Sports; a request that raises, times out
\* or answers another status than 200 is not repeated, adds no record,
\* does not keep the later sources from being requested and loses no
\* record collected before it.
C6_EachSourceOnceFailuresIsolated ==
  LET requests == Steps(trace, {"request"})
  IN  /\ Len(requests) = Len(responses)
      /\ Len(requests) <= Len(sources)
      /\ \A k \in 1..Len(requests) : requests[k][2] = sources[k].name
      /\ pc # "extract" => Len(requests) = Len(sources)
      /\ pc \in {"extract", "generate"} => real_fixtures = Contributions(1)

C6_FailureBetweenTwoAnswers ==
  /\ pc = "generate"
  /\ responses[1].status = "200"
  /\ responses[2].status = "raised"
  /\ responses[3].status = "200"
  /\ Contribution(1) # <<>>
  /\ Contribution(3) # <<>>
  /\ real_fixtures = Contribution(1) \o Contribution(3)

\* C7: in export_daily_football_list the failure of one format keeps no
\* other format from being attempted, and the summary step runs behind the
\* export all the same.
C7_FormatFailureIsolated ==
  (Happened("write failed") /\ pc # "write") =>
    LET attempts == Steps(trace, {"write", "write failed"})
    IN  /\ Len(attempts) = Len(formats)
        /\ \A k \in 1..Len(attempts) : attempts[k][2] = formats[k]
        /\ pc = "summary" \/ Happened("summary")

C7_SummaryBehindFailedFormat ==
  /\ pc = "done"
  /\ result = "success"
  /\ Happened("write failed")
  /\ \E f \in files : f[1] = summary_path

\* C8: when an exception leaves every inner handler, main catches it and
\* the run leaves an artifact (an error report or a placeholder export).
C8_FailedRunLeavesArtifact ==
  (pc = "done" /\ result = "failed") => files # {}

\* what a finished run without an answer from any source has left
SummaryOfFallbackBatch ==
  (pc = "done" /\ AllRequestsFailed) =>
    /\ io_faults = 0 => result = "success"
    /\ result = "success" =>
         /\ processed_fixtures # <<>>
         /\ Len(processed_fixtures) = Len(generated_fixtures)
         /\ \A i \in 1..Len(processed_fixtures) :
              processed_fixtures[i].source = "Daily Football List"
         /\ \E f \in files :
              /\ f[1] = summary_path
              /\ f[2].total_fixtures = Len(processed_fixtures)

\* C9: when all three requests fail the run still comes to its end; when
\* no file operation fails on the way it ends in success, and a run that
\* ends in success has left exports/platform_summary.json whose total is
\* the size of the exported batch, which is the generated batch.
C9_RunEndsWithSummaryOfFallbackBatch ==
  /\ []SummaryOfFallbackBatch
  /\ (AllRequestsFailed /\ pc = "generate") ~> (pc = "done")

C9_RunWithoutAnyAnswer ==
  /\ pc = "done"
  /\ AllRequestsFailed
  /\ result = "success"
  /\ io_faults = 0
  /\ Len(exported_files) = Len(formats)

\* the place of a step in the order of the stages as claimed: fetch and
\* extract, deduplicate, generate, export, summary
ClaimedRank(step) ==
  CASE step[1] \in {"request", "sleep"} -> 1
    [] step[1] \in {"remove_duplicates", "sort_fixtures", "enhance_fixtures"} -> 2
    [] step[1] = "generate" -> 3
    [] step[1] \in {"export", "write", "write failed"} -> 4
    [] step[1] = "summary" -> 5

\* the place of a step in the order of the phases of the source: fetch and
\* extract, generate, deduplicate, export, summary
PhaseRank(step) ==
  CASE step[1] \in {"request", "sleep"} -> 1
    [] step[1] = "generate" -> 2
    [] step[1] \in {"remove_duplicates", "sort_fixtures", "enhance_fixtures"} -> 3
    [] step[1] \in {"export", "write", "write failed"} -> 4
    [] step[1] = "summary" -> 5

C11_EveryPathEmbedsTimestamp ==
  \A f \in files : Contains(f[1], Timestamp(today, clock))

\* C12: between two requests of extract_real_fixtures that follow each
\* other the delay of time.sleep(2) passes, whatever the first one ended
\* with, and a request starts only when the one before has ended.
C12_DelayBetweenRequests ==
  /\ \A k \in 1..(Len(trace) - 1) :
       ~(trace[k][1] = "request" /\ trace[k + 1][1] = "request")
  /\ Len(Steps(trace, {"request"})) = Len(responses)

\* C13: clean_team_name is idempotent: applied to what it returned, it
\* returns the same.
C13_CleanTeamNameIdempotent ==
  (call.fn = "clean_team_name" /\ Len(call.out) = 2) => call.out[2] = call.out[1]

\* C14: clean_team_name returns, for every raw name, a string of at most
\* 40 characters, also when the table of abbreviations gives a longer
\* name, and the empty string for the empty string.
C14_CleanTeamNameAtMost40 ==
  (call.fn = "clean_team_name" /\ call.out # <<>>) =>
    /\ Len(call.out[1]) <= 40
    /\ call.arg = "" => call.out[1] = ""

C14_LongNameCleaned ==
  /\ call.fn = "clean_team_name"
  /\ Len(call.arg) > 40
  /\ call.out # <<>>
  /\ Len(call.out[1]) < Len(strip(call.arg))

\* C15: remove_duplicates returns its input without the fixtures whose
\* key an earlier fixture has: the first fixture of each key is kept, in
\* the order of the input, and nothing else is dropped.
C15_FirstOfEachKeyInOrder ==
  (call.fn = "remove_duplicates" /\ call.out # <<>>) =>
    LET fixtures == call.arg
        unique == call.out[1]
        first == {i \in 1..Len(fixtures) :
                    \A j \in 1..(i - 1) : DedupKey(fixtures[j]) # DedupKey(fixtures[i])}
    IN  /\ Len(unique) = Cardinality(first)
        /\ \A i \in first : unique[Cardinality({j \in first : j <= i})] = fixtures[i]

C15_LaterDuplicateDropped ==
  /\ call.fn = "remove_duplicates"
  /\ call.out # <<>>
  /\ Len(call.arg) = 3
  /\ Len(call.out[1]) = 2
  /\ call.arg[1].source = "ESPN"
  /\ call.arg[3].source = "Daily Football List"
  /\ DedupKey(call.arg[1]) = DedupKey(call.arg[3])
  /\ DedupKey(call.arg[1]) # DedupKey(call.arg[2])

\* the elements of a page whose parsing does not raise
RECURSIVE WithoutRaising(_)
WithoutRaising(soup) ==
  IF soup = <<>> THEN <<>>
  ELSE (IF Raises(Head(soup)) THEN <<>> ELSE <<Head(soup)>>)
         \o WithoutRaising(Tail(soup))

\* C16: parse_website_fixtures swallows the failure of one element: the
\* element gives no fixture, and the fixtures of the elements in front of
\* it and behind it, under this and the later selectors, are returned as
\* if the element were not in the page.
C16_ElementFailureSwallowed ==
  (call.fn = "parse_website_fixtures" /\ call.out # <<>>) =>
    /\ call.out[1] = ParseSelectors(WithoutRaising(call.arg), "ESPN", today, 1)
    /\ \A i \in 1..Len(call.out[1]) : call.out[1][i].home_team # "Leeds"

C16_RaisingBetweenFixtures ==
  /\ call.fn = "parse_website_fixtures"
  /\ call.out # <<>>
  /\ Len(call.arg) >= 3
  /\ Raises(call.arg[2])
  /\ \E i, j \in 1..Len(call.out[1]) :
       /\ call.out[1][i].home_team = "Wolves"
       /\ call.out[1][j].home_team = "Fulham"

\* C17: generate_platform_summary, called with an empty batch and any
\* list of written files, returns and writes a summary with a total of 0
\* and with empty breakdowns by competition and by country.
C17_SummaryOfEmptyBatch ==
  (/\ call.fn = "generate_platform_summary"
   /\ call.arg.fixtures = <<>>
   /\ call.out # <<>>) =>
    /\ call.out[1].total_fixtures = 0
    /\ call.out[1].competitions_covered = 0
    /\ call.out[1].countries_covered = 0
    /\ DOMAIN call.out[1].competition_breakdown = {}
    /\ DOMAIN call.out[1].country_breakdown = {}
    /\ call.out[1].exported_files = call.arg.exported_files
    /\ <<summary_path, call.out[1]>> \in files

C17_EmptyBatchSummarised ==
  /\ call.fn = "generate_platform_summary"
  /\ call.arg.fixtures = <<>>
  /\ Len(call.arg.exported_files) = 4
  /\ call.out # <<>>
  /\ files # {}

\* C18: an element of class match whose text is a home name, a score
\* written as number, separator, number, and an away name gives a fixture
\* with that home team, that away team and the two scores as home_score
\* and away_score.
C18_ScoreRecordExtracted ==
  \A r \in 1..Len(ScoreTexts) :
    (/\ call.fn = "parse_fixture_element"
     /\ call.arg.class = "match"
     /\ call.arg.text = ScoreTexts[r][1]
     /\ call.out # <<>>) =>
      /\ call.out[1] # <<>>
      /\ call.out[1][1].home_team = ScoreTexts[r][2]
      /\ call.out[1][1].away_team = ScoreTexts[r][5]
      /\ {"home_score", "away_score"} \subseteq DOMAIN call.out[1][1]
      /\ call.out[1][1].home_score = ScoreTexts[r][3]
      /\ call.out[1][1].away_score = ScoreTexts[r][4]

\* the day a date string names
DayOfDate(date) == CHOOSE day \in 0..35 : FormatDate(day) = date

DigitValue(c) == CHOOSE n \in 0..9 : At(DigitChars, n + 1) = c

RECURSIVE NumberOf(_)
NumberOf(s) ==
  IF s = "" THEN 0
  ELSE NumberOf(SubSeq(s, 1, Len(s) - 1)) * 10 + DigitValue(At(s, Len(s)))

\* the minutes after midnight a time string H:MM or HH:MM names
MinutesOf(time) ==
  LET colon == CHOOSE i \in 1..Len(time) : At(time, i) = ":"
  IN  NumberOf(SubSeq(time, 1, colon - 1)) * 60
        + NumberOf(SubSeq(time, colon + 1, Len(time)))

\* f may stand in front of g: lower priority number, or the same and an
\* earlier day, or the same two and no later time
InCalendarOrder(f, g) ==
  LET pf == PriorityOf(f.competition)
      pg == PriorityOf(g.competition)
  IN  \/ pf < pg
      \/ pf = pg /\ DayOfDate(f.date) < DayOfDate(g.date)
      \/ pf = pg /\ DayOfDate(f.date) = DayOfDate(g.date)
                 /\ MinutesOf(f.time) <= MinutesOf(g.time)

Occurrences(fixture, fixtures) ==
  Cardinality({i \in 1..Len(fixtures) : fixtures[i] = fixture})

IsPermutation(a, b) ==
  /\ Len(a) = Len(b)
  /\ \A fixture \in Range(a) : Occurrences(fixture, a) = Occurrences(fixture, b)

\* C19: sort_fixtures returns a permutation of its input in which every
\* fixture is followed by one of no smaller priority number, then of no
\* earlier calendar date, then of no earlier kickoff time.
C19_SortedByPriorityDateTime ==
  (call.fn = "sort_fixtures" /\ call.out # <<>>) =>
    /\ IsPermutation(call.out[1], call.arg)
    /\ \A i \in 1..(Len(call.out[1]) - 1) :
         InCalendarOrder(call.out[1][i], call.out[1][i + 1])

\* C20: whenever an extracted record and a generated record of a run have
\* the same deduplication key, the final batch holds a record of a website
\* with that key and no generated record with it, whichever sources
\* answered.
C20_ExtractedKeptOverGenerated ==
  BatchFinal =>
    \A i \in 1..Len(real_fixtures), j \in 1..Len(generated_fixtures) :
      DedupKey(real_fixtures[i]) = DedupKey(generated_fixtures[j]) =>
        /\ \E k \in 1..Len(processed_fixtures) :
             /\ DedupKey(processed_fixtures[k]) = DedupKey(real_fixtures[i])
             /\ processed_fixtures[k].type = "real_extraction"
             /\ processed_fixtures[k].source \in {sources[n].name : n \in 1..Len(sources)}
        /\ \A k \in 1..Len(processed_fixtures) :
             DedupKey(processed_fixtures[k]) = DedupKey(real_fixtures[i]) =>
               processed_fixtures[k].type # "generated"

\* a run in which the first website failed and a later one gave a record
\* with the key of a generated record
C20_LaterSourceSharingAKey ==
  /\ BatchFinal
  /\ responses # <<>>
  /\ responses[1].status # "200"
  /\ \E i \in 1..Len(real_fixtures), j \in 1..Len(generated_fixtures) :
       /\ DedupKey(real_fixtures[i]) = DedupKey(generated_fixtures[j])
       /\ real_fixtures[i].source # sources[1].name

\* the sum of the counts of a breakdown
RECURSIVE SumOver(_, _)
SumOver(counts, S) ==
  IF S = {} THEN 0
  ELSE LET v == CHOOSE x \in S : TRUE
       IN  counts[v] + SumOver(counts, S \ {v})

SumOfCounts(counts) == SumOver(counts, DOMAIN counts)

\* C21: in the summary generate_platform_summary writes, the counts of
\* competition_breakdown and those of country_breakdown each sum to
\* total_fixtures, and total_fixtures is the number of records of the
\* batch that was exported, which is the number of rows of each file
\* written.
C21_BreakdownsSumToBatchSize ==
  \A f \in files :
    f[1] = summary_path =>
      /\ SumOfCounts(f[2].competition_breakdown) = f[2].total_fixtures
      /\ SumOfCounts(f[2].country_breakdown) = f[2].total_fixtures
      /\ f[2].total_fixtures = Len(processed_fixtures)
      /\ \A g \in files :
           g[1] \in Range(exported_files) => g[2].rows = f[2].total_fixtures

\* a summary of a batch of extracted and generated records in which some
\* competition and some country count more than one record
C21_SummaryOfMixedBatch ==
  /\ pc = "done"
  /\ result = "success"
  /\ real_fixtures # <<>>
  /\ exported_files # <<>>
  /\ \E f \in files :
       /\ f[1] = summary_path
       /\ \E c \in DOMAIN f[2].competition_breakdown :
            f[2].competition_breakdown[c] > 1
       /\ Cardinality(DOMAIN f[2].competition_breakdown) > 1
       /\ \E c \in DOMAIN f[2].country_breakdown : f[2].country_breakdown[c] > 1
       /\ Cardinality(DOMAIN f[2].country_breakdown) > 1

\* export_daily_football_list has returned
ExportReturned == pc \in {"summary", "finish"} \/ (pc = "done" /\ result = "success")

\* the paths of those of the formats of order whose block completed, in
\* the order of order
RECURSIVE PathsWritten(_)
PathsWritten(order) ==
  IF order = <<>> THEN <<>>
  ELSE (IF <<"write", Head(order)>> \in Range(trace)
        THEN <<"exports/Daily_Football_List_" \o Timestamp(today, clock) \o "."
                 \o Head(order)>>
        ELSE <<>>)
         \o PathsWritten(Tail(order))

\* C22: whichever of the four blocks failed, the list the export returns
\* is the paths of the formats whose block completed, each once, in the
\* order Excel, CSV, JSON, HTML, without the path of a format that failed;
\* each listed file was written, and the summary records the same list.
C22_ExportedFilesAreTheFormatsWritten ==
  ExportReturned =>
    /\ \A fmt \in {"xlsx", "csv", "json", "html"} :
         (<<"write", fmt>> \in Range(trace)) # (<<"write failed", fmt>> \in Range(trace))
    /\ exported_files = PathsWritten(<<"xlsx", "csv", "json", "html">>)
    /\ \A i, j \in 1..Len(exported_files) :
         exported_files[i] = exported_files[j] => i = j
    /\ \A i \in 1..Len(exported_files) : \E f \in files : f[1] = exported_files[i]
    /\ \A f \in files : f[1] = summary_path => f[2].exported_files = exported_files

\* an export of fixtures in which Excel and JSON failed, CSV and HTML were
\* written, and the summary was written after them
C22_TwoFormatsFailedTwoWritten ==
  /\ pc = "finish"
  /\ processed_fixtures # <<>>
  /\ Steps(trace, {"write", "write failed"})
       = << <<"write failed", "xlsx">>, <<"write", "csv">>,
            <<"write failed", "json">>, <<"write", "html">> >>
  /\ Len(exported_files) = 2
  /\ \E f \in files : f[1] = summary_path

====
